---- MODULE Spec2Model ----
(***************************************************************************)
(* Model of convert.py: the conversion of a DNS velocity field into the    *)
(* initial-condition table read by Pele.  The script is one linear         *)
(* pipeline; every statement group of the script is one action and pc      *)
(* names the statement that runs next.                                     *)
(*                                                                         *)
(* Numbers.  Coordinates are integers (grid index i sits at 2*i, so that   *)
(* 0.5*dx stays an integer).  A velocity is the record [num, sq] that      *)
(* stands for the real number num / sqrt(sq[1]/sq[2]); squares of          *)
(* velocities and the derived scalars urms^2, lambda0^2, ... are exact     *)
(* rationals <<numerator, denominator>>.  <<1,0>> and <<-1,0>> are +inf    *)
(* and -inf, <<0,0>> is NaN.                                               *)
(***************************************************************************)
EXTENDS Integers, Sequences, FiniteSets, TLC

VARIABLES file, out, pc, err, nskip, dat, mu, Re, dx, urms, u2, cube,
          dudx2, lambda0, k0, Re_lambda, stdout

vars == <<file, out, pc, err, nskip, dat, mu, Re, dx, urms, u2, cube,
          dudx2, lambda0, k0, Re_lambda, stdout>>

scalars == <<urms, u2, cube, dudx2, lambda0, k0, Re_lambda>>

\* ------------------------------------------------------------------------
\* bounds of the model

\* points per axis (128 in the script)
resolution == 2

\* longest header of the input file, in lines
MaxHeader == 3

\* the input rows are a loop nest over the grid, reordered in one of the
\* ways 0..MaxShuffle
MaxShuffle == 2

\* velocity fields 0..MaxField (field 0 is identically zero)
MaxField == 1

\* ------------------------------------------------------------------------
\* exact rational arithmetic

NoValue == "none"

Abs(a) == IF a < 0 THEN -a ELSE a

Sign(a) == IF a < 0 THEN -1 ELSE IF a = 0 THEN 0 ELSE 1

RECURSIVE GCD(_, _)
GCD(a, b) == IF b = 0 THEN a ELSE GCD(b, a % b)

NaN == <<0, 0>>

Reduce(p) ==
    IF p[2] = 0 THEN <<Sign(p[1]), 0>>
    ELSE LET g == GCD(Abs(p[1]), Abs(p[2]))
             s == Sign(p[2])
         IN  <<s * (p[1] \div g), s * (p[2] \div g)>>

RatAdd(p, q) ==
    IF p[2] = 0 /\ q[2] = 0 THEN (IF p[1] = q[1] THEN p ELSE NaN)
    ELSE IF p[2] = 0 THEN p
    ELSE IF q[2] = 0 THEN q
    ELSE LET l == (p[2] \div GCD(p[2], q[2])) * q[2]
         IN  Reduce(<<p[1] * (l \div p[2]) + q[1] * (l \div q[2]), l>>)

RatMul(p, q) == Reduce(<<p[1] * q[1], p[2] * q[2]>>)

\* p / q as numpy divides floats: x/0 is inf or NaN, never an exception
RatDiv(p, q) == Reduce(<<p[1] * q[2], p[2] * q[1]>>)

RatInt(a) == <<a, 1>>

RECURSIVE RatSum(_)
RatSum(s) == IF s = <<>> THEN RatInt(0)
             ELSE RatAdd(RatSum(SubSeq(s, 1, Len(s) - 1)), s[Len(s)])

\* np.mean of a column: NaN for an empty one
RatMean(s) == RatDiv(RatSum(s), RatInt(Len(s)))

\* a float read from the file
Val(a) == [num |-> a, sq |-> RatInt(1)]

\* v ** 2
SquareOf(v) == Reduce(<<v.num * v.num * v.sq[2], v.sq[1]>>)

\* v / r where r is the square root of the rational r2
DivBySqrt(v, r2) == [num |-> v.num, sq |-> RatMul(v.sq, r2)]

\* ------------------------------------------------------------------------
\* the lines of the input file

Marker == <<"exporting", "field", "in", "real", "space">>

TitleLine   == <<"#", "forced", "HIT">>
Visc5Line   == <<"kinematic", "viscosity", "5">>
Visc0Line   == <<"viscosity", "0">>
ViscBadLine == <<"viscosity", "n/a">>
MarkerLine  == <<"#">> \o Marker

HeaderLines == {TitleLine, Visc5Line, Visc0Line, ViscBadLine, MarkerLine}

\* float(token): the tokens that are numbers, and their values
FloatOf == ("0" :> 0) @@ ("5" :> 5)

Text(toks) == [text |-> toks, data |-> <<>>]

DataLine(row) == [text |-> <<>>, data |-> <<row>>]

\* "viscosity" in line
HasViscosity(line) == \E i \in 1..Len(line.text) : line.text[i] = "viscosity"

\* "exporting field in real space" in line
HasMarker(line) ==
    \E i \in 1..Len(line.text) :
        /\ i + Len(Marker) - 1 <= Len(line.text)
        /\ SubSeq(line.text, i, i + Len(Marker) - 1) = Marker

\* ------------------------------------------------------------------------
\* the input files the model runs the script on

NPoints == resolution * resolution * resolution

\* coordinate of grid index i
GridCoord(i) == 2 * i

AxisOrders == {<<"x", "y", "z">>, <<"x", "z", "y">>, <<"y", "x", "z">>,
               <<"y", "z", "x">>, <<"z", "x", "y">>, <<"z", "y", "x">>}

RECURSIVE Pow(_, _)
Pow(b, e) == IF e = 0 THEN 1 ELSE b * Pow(b, e - 1)

\* grid index along axis a of the p-th point (p from 0) of the loop nest in
\* which axis ord[1] runs fastest and ord[3] slowest
IndexOf(ord, a, p) ==
    LET pos == CHOOSE q \in 1..3 : ord[q] = a
    IN  (p \div Pow(resolution, pos - 1)) % resolution

\* velocity field f at grid point (i, j, k)
FieldU(f, i, j, k) == IF f = 0 THEN 0 ELSE (i + 2 * j + f * k) % 3
FieldV(f, i, j, k) == IF f = 0 THEN 0 ELSE (j + f) % 3
FieldW(f, i, j, k) == IF f = 0 THEN 0 ELSE (f * i + k) % 3

PointRow(f, i, j, k) ==
    <<GridCoord(i), GridCoord(j), GridCoord(k),
      FieldU(f, i, j, k), FieldV(f, i, j, k), FieldW(f, i, j, k)>>

\* row r of the k-th reordering of a loop nest: 0 keeps the nest, 1 walks
\* it backwards, k > 1 exchanges its rows 1 and k
Reordered(k, r) ==
    IF k = 0 THEN r
    ELSE IF k = 1 THEN NPoints + 1 - r
    ELSE IF r = 1 THEN k
    ELSE IF r = k THEN 1
    ELSE r

InputRows(ord, k, drop, f) ==
    LET rows == [r \in 1..NPoints |->
                    LET p == Reordered(k, r) - 1
                    IN  PointRow(f, IndexOf(ord, "x", p), IndexOf(ord, "y", p),
                                 IndexOf(ord, "z", p))]
    IN  IF drop THEN SubSeq(rows, 1, NPoints - 1) ELSE rows

RECURSIVE SeqsUpTo(_, _)
SeqsUpTo(S, k) ==
    IF k = 0 THEN {<<>>}
    ELSE LET shorter == SeqsUpTo(S, k - 1)
         IN  shorter \cup {Append(h, l) : h \in shorter, l \in S}

Headers == SeqsUpTo(HeaderLines, MaxHeader)

FileLines(header, rows) ==
    [i \in 1..Len(header) |-> Text(header[i])]
        \o [i \in 1..Len(rows) |-> DataLine(rows[i])]

InputFile(h, ord, k, drop, f) ==
    [exists |-> TRUE, lines |-> FileLines(h, InputRows(ord, k, drop, f))]

MissingFile == [exists |-> FALSE, lines |-> <<>>]

\* the output file before the run: absent, or left by an earlier run
OldOutput == [state |-> "old", lines |-> <<>>]

NoOutput == [state |-> "absent", lines |-> <<>>]

\* ------------------------------------------------------------------------
\* the functions of the script

RECURSIVE scan_viscosity(_, _)
scan_viscosity(lines, i) ==
    IF i > Len(lines) THEN [raised |-> FALSE, value |-> 0]
    ELSE IF HasViscosity(lines[i])
         THEN LET tok == lines[i].text[Len(lines[i].text)]
              IN  IF tok \in DOMAIN FloatOf
                  THEN [raised |-> FALSE, value |-> FloatOf[tok]]
                  ELSE [raised |-> TRUE, value |-> 0]
         ELSE scan_viscosity(lines, i + 1)

\* get_viscosity without the early return: the last matching line wins
RECURSIVE scan_viscosity_all(_, _, _)
scan_viscosity_all(lines, i, found) ==
    IF i > Len(lines) THEN found
    ELSE IF HasViscosity(lines[i])
         THEN LET tok == lines[i].text[Len(lines[i].text)]
              IN  IF tok \in DOMAIN FloatOf
                  THEN scan_viscosity_all(lines, i + 1,
                                          [raised |-> FALSE, value |-> FloatOf[tok]])
                  ELSE [raised |-> TRUE, value |-> 0]
         ELSE scan_viscosity_all(lines, i + 1, found)

get_viscosity_last_match(f) ==
    scan_viscosity_all(f.lines, 1, [raised |-> FALSE, value |-> 0])

get_viscosity(f) == scan_viscosity(f.lines, 1)

RECURSIVE scan_skiprows(_, _)
scan_skiprows(lines, n) ==
    IF n > Len(lines) THEN 0
    ELSE IF HasMarker(lines[n]) THEN n
    ELSE scan_skiprows(lines, n + 1)

\* get_skiprows_num with enumerate(f) counting from 0
get_skiprows_num_from_zero(f) ==
    LET n == scan_skiprows(f.lines, 1) IN IF n = 0 THEN 0 ELSE n - 1

get_skiprows_num(f) == scan_skiprows(f.lines, 1)

\* names= of read_csv and columns= of to_csv
names == <<"x", "y", "z", "u", "v", "w">>

columns == <<"x", "y", "z", "u", "v", "w">>

Labels == {names[i] : i \in 1..Len(names)}

\* read_csv that drops the lines it cannot parse
read_csv_skip_bad_lines(f, n) ==
    LET rest == SelectSeq(SubSeq(f.lines, n + 1, Len(f.lines)),
                          LAMBDA l : l.data # <<>>)
    IN  [raised |-> FALSE,
         table |-> [i \in 1..Len(rest) |->
                       [c \in Labels |->
                           LET t == rest[i].data[1]
                                       [CHOOSE q \in 1..Len(names) : names[q] = c]
                           IN  IF c \in {"u", "v", "w"} THEN Val(t) ELSE t]]]

\* pd.read_csv(..., names=names, skiprows=n): the table of the lines after
\* the first n, or a failure when one of them is not a row of numbers
read_csv(f, n) ==
    LET rest == SubSeq(f.lines, n + 1, Len(f.lines))
    IN  IF \E i \in 1..Len(rest) : rest[i].data = <<>>
        THEN [raised |-> TRUE, table |-> <<>>]
        ELSE [raised |-> FALSE,
              table |-> [i \in 1..Len(rest) |->
                            [c \in Labels |->
                                LET t == rest[i].data[1]
                                            [CHOOSE q \in 1..Len(names) : names[q] = c]
                                IN  IF c \in {"u", "v", "w"} THEN Val(t) ELSE t]]]

\* a rename that exchanges u and v along with x and y
rename_with_velocities(table) ==
    [i \in 1..Len(table) |->
        [c \in Labels |-> IF c = "y" THEN table[i]["x"]
                          ELSE IF c = "x" THEN table[i]["y"]
                          ELSE IF c = "v" THEN table[i]["u"]
                          ELSE IF c = "u" THEN table[i]["v"]
                          ELSE table[i][c]]]

\* dat.rename(columns={'x': 'y', 'y': 'x'}): the column labelled x is
\* labelled y afterwards and the other way round
rename(table) ==
    [i \in 1..Len(table) |->
        [c \in Labels |-> IF c = "y" THEN table[i]["x"]
                          ELSE IF c = "x" THEN table[i]["y"]
                          ELSE table[i][c]]]

Column(table, c) == [i \in 1..Len(table) |-> table[i][c]]

\* np.diff
diff(col) == [i \in 1..Len(col) - 1 |-> col[i + 1] - col[i]]

\* np.max of a non-empty sequence
RECURSIVE SeqMax(_)
SeqMax(s) ==
    IF Len(s) = 1 THEN s[1]
    ELSE LET m == SeqMax(SubSeq(s, 1, Len(s) - 1))
         IN  IF s[Len(s)] > m THEN s[Len(s)] ELSE m

\* 0.5 * d (every coordinate difference of the model is even)
Half(d) == d \div 2

\* a shift that leaves z at the cell corners
shift_without_z(table, d) ==
    [i \in 1..Len(table) |->
        [c \in Labels |-> IF c \in {"x", "y"} THEN table[i][c] + Half(d)
                          ELSE table[i][c]]]

\* dat[c] = dat[c] + 0.5 * dx for c = x, y, z
shift(table, d) ==
    [i \in 1..Len(table) |->
        [c \in Labels |-> IF c \in {"x", "y", "z"} THEN table[i][c] + Half(d)
                          ELSE table[i][c]]]

\* the keys with x most significant
by_xyz == <<"x", "y", "z">>

\* the keys of sort_values, most significant first
by == <<"z", "y", "x">>

RECURSIVE LexLess(_, _, _)
LexLess(a, b, k) ==
    IF k > Len(by) THEN FALSE
    ELSE IF a[by[k]] < b[by[k]] THEN TRUE
    ELSE IF a[by[k]] > b[by[k]] THEN FALSE
    ELSE LexLess(a, b, k + 1)

\* r put behind the last row of the sorted table whose key is not greater
InsertRow(sorted, r) ==
    LET smaller == {i \in 1..Len(sorted) : ~LexLess(r, sorted[i], 1)}
        at == IF smaller = {} THEN 0
              ELSE CHOOSE i \in smaller : \A j \in smaller : j <= i
    IN  SubSeq(sorted, 1, at) \o <<r>> \o SubSeq(sorted, at + 1, Len(sorted))

\* dat.sort_values(by=['z', 'y', 'x']): a stable sort
RECURSIVE sort_values(_)
sort_values(table) ==
    IF table = <<>> THEN <<>>
    ELSE InsertRow(sort_values(SubSeq(table, 1, Len(table) - 1)),
                   table[Len(table)])

\* np.mean(dat['u']**2 + dat['v']**2 + dat['w']**2) / 3, the square of urms
urms_squared(table) ==
    RatDiv(RatMean([i \in 1..Len(table) |->
                       RatAdd(RatAdd(SquareOf(table[i]["u"]),
                                     SquareOf(table[i]["v"])),
                              SquareOf(table[i]["w"]))]),
           RatInt(3))

\* the reshape with order='C', last axis fastest
reshape_row_major(col) ==
    [a \in 0..resolution - 1 |->
        [b \in 0..resolution - 1 |->
            [c \in 0..resolution - 1 |->
                col[1 + c + resolution * b + resolution * resolution * a]]]]

\* col.reshape((resolution, resolution, resolution), order='F'): element
\* (a, b, c), indices from 0, is the entry a + resolution*b + resolution^2*c
\* of the column (entries counted from 0)
reshape(col) ==
    [a \in 0..resolution - 1 |->
        [b \in 0..resolution - 1 |->
            [c \in 0..resolution - 1 |->
                col[1 + a + resolution * b + resolution * resolution * c]]]]

\* np.gradient(f, dx, axis=0) times 2*dx: central differences inside,
\* one-sided differences at both ends
gradient_axis0(f) ==
    [a \in 0..resolution - 1 |->
        [b \in 0..resolution - 1 |->
            [c \in 0..resolution - 1 |->
                IF a = 0 THEN 2 * (f[1][b][c].num - f[0][b][c].num)
                ELSE IF a = resolution - 1
                     THEN 2 * (f[a][b][c].num - f[a - 1][b][c].num)
                     ELSE f[a + 1][b][c].num - f[a - 1][b][c].num]]]

\* np.mean(np.gradient(...)**2)
mean_gradient_squared(f, d) ==
    LET g == gradient_axis0(f)
        flat == [p \in 1..NPoints |->
                    LET a == (p - 1) % resolution
                        b == ((p - 1) \div resolution) % resolution
                        c == (p - 1) \div (resolution * resolution)
                    IN  RatInt(g[a][b][c] * g[a][b][c])]
    IN  RatDiv(RatMean(flat), RatInt(4 * d * d))

\* a normalization that forgets w
normalize_uv_only(table, r2) ==
    [i \in 1..Len(table) |->
        [c \in Labels |-> IF c \in {"u", "v"}
                          THEN DivBySqrt(table[i][c], r2)
                          ELSE table[i][c]]]

\* dat[c] /= urms for c = u, v, w
normalize(table, r2) ==
    [i \in 1..Len(table) |->
        [c \in Labels |-> IF c \in {"u", "v", "w"}
                          THEN DivBySqrt(table[i][c], r2)
                          ELSE table[i][c]]]

HeaderRow == [kind |-> "header", fields |-> columns]

DataRow(r) == [kind |-> "data", fields |-> [q \in 1..Len(columns) |-> r[columns[q]]]]

\* to_csv with header=False
to_csv_header_off(table) == [i \in 1..Len(table) |-> DataRow(table[i])]

\* dat.to_csv(oname, columns=columns, float_format='%.18e', index=False):
\* header is left at its default, True
to_csv(table) ==
    <<HeaderRow>> \o [i \in 1..Len(table) |-> DataRow(table[i])]

\* ------------------------------------------------------------------------
\* the script

Init ==
    /\ \/ file = MissingFile
       \/ \E h \in Headers, ord \in AxisOrders, k \in 0..MaxShuffle,
             drop \in BOOLEAN, f \in 0..MaxField :
             file = InputFile(h, ord, k, drop, f)
    /\ out \in {NoOutput, OldOutput}
    /\ pc = "get_skiprows_num"
    /\ err = NoValue
    /\ nskip = NoValue
    /\ dat = <<>>
    /\ mu = NoValue
    /\ Re = NoValue
    /\ dx = NoValue
    /\ urms = NoValue
    /\ u2 = NoValue
    /\ cube = NoValue
    /\ dudx2 = NoValue
    /\ lambda0 = NoValue
    /\ k0 = NoValue
    /\ Re_lambda = NoValue
    /\ stdout = <<>>

\* an uncaught exception ends the run
Raise(e) == pc' = "failed" /\ err' = e

\* nskip = get_skiprows_num(fname)
GetSkiprowsNum ==
    /\ pc = "get_skiprows_num"
    /\ IF file.exists
       THEN pc' = "read_csv" /\ nskip' = get_skiprows_num(file) /\ err' = err
       ELSE Raise("FileNotFoundError") /\ nskip' = nskip
    /\ UNCHANGED <<file, out, dat, mu, Re, dx, scalars, stdout>>

\* dat = pd.read_csv(fname, ..., skiprows=nskip)
ReadCsv ==
    /\ pc = "read_csv"
    /\ LET r == read_csv(file, nskip)
       IN  IF r.raised
           THEN Raise("ParserError") /\ dat' = dat
           ELSE pc' = "get_viscosity" /\ dat' = r.table /\ err' = err
    /\ UNCHANGED <<file, out, nskip, mu, Re, dx, scalars, stdout>>

\* mu = get_viscosity(fname)
GetViscosity ==
    /\ pc = "get_viscosity"
    /\ LET r == get_viscosity(file)
       IN  IF r.raised
           THEN Raise("ValueError: could not convert string to float") /\ mu' = mu
           ELSE pc' = "Re" /\ mu' = r.value /\ err' = err
    /\ UNCHANGED <<file, out, nskip, dat, Re, dx, scalars, stdout>>

\* 1. / m in IEEE arithmetic: inf or NaN, no exception
reciprocal_ieee(m) == [raised |-> FALSE, value |-> Reduce(<<1, m>>)]

\* 1. / m in Python: a zero divisor raises
reciprocal(m) ==
    IF m = 0 THEN [raised |-> TRUE, value |-> NaN]
    ELSE [raised |-> FALSE, value |-> Reduce(<<1, m>>)]

\* Re = 1. / mu
ComputeRe ==
    /\ pc = "Re"
    /\ LET r == reciprocal(mu)
       IN  IF r.raised
           THEN Raise("ZeroDivisionError") /\ Re' = Re
           ELSE pc' = "rename" /\ Re' = r.value /\ err' = err
    /\ UNCHANGED <<file, out, nskip, dat, mu, dx, scalars, stdout>>

\* dat = dat.rename(columns={'x': 'y', 'y': 'x'})
Rename ==
    /\ pc = "rename"
    /\ dat' = rename(dat)
    /\ pc' = "dx"
    /\ UNCHANGED <<file, out, err, nskip, mu, Re, dx, scalars, stdout>>

\* dx = np.max(np.diff(dat['x'])): np.max of nothing raises
ComputeDx ==
    /\ pc = "dx"
    /\ IF Len(dat) < 2
       THEN Raise("ValueError: zero-size array to reduction operation") /\ dx' = dx
       ELSE pc' = "shift" /\ dx' = SeqMax(diff(Column(dat, "x"))) /\ err' = err
    /\ UNCHANGED <<file, out, nskip, dat, mu, Re, scalars, stdout>>

\* dat['x'] = dat['x'] + 0.5 * dx, and the same for y and z
Shift ==
    /\ pc = "shift"
    /\ dat' = shift(dat, dx)
    /\ pc' = "sort_values"
    /\ UNCHANGED <<file, out, err, nskip, mu, Re, dx, scalars, stdout>>

\* dat.sort_values(by=['z', 'y', 'x'], inplace=True)
SortValues ==
    /\ pc = "sort_values"
    /\ dat' = sort_values(dat)
    /\ pc' = "urms"
    /\ UNCHANGED <<file, out, err, nskip, mu, Re, dx, scalars, stdout>>

\* urms = np.sqrt(np.mean(dat['u']**2 + dat['v']**2 + dat['w']**2) / 3)
ComputeUrms ==
    /\ pc = "urms"
    /\ urms' = urms_squared(dat)
    /\ pc' = "taylor"
    /\ UNCHANGED <<file, out, err, nskip, dat, mu, Re, dx, u2, cube, dudx2,
                   lambda0, k0, Re_lambda, stdout>>

\* u2, dudx2, lambda0, k0, Re_lambda: reshape raises unless the column has
\* resolution^3 entries
Taylor ==
    /\ pc = "taylor"
    /\ IF Len(dat) # NPoints
       THEN /\ Raise("ValueError: cannot reshape array")
            /\ UNCHANGED <<u2, cube, dudx2, lambda0, k0, Re_lambda>>
       ELSE LET f == reshape(Column(dat, "u"))
                m == RatMean([i \in 1..Len(dat) |-> SquareOf(dat[i]["u"])])
                g == mean_gradient_squared(f, dx)
                l == RatDiv(m, g)
            IN  /\ u2' = m
                /\ cube' = f
                /\ dudx2' = g
                /\ lambda0' = l
                /\ k0' = RatDiv(RatInt(4), l)
                /\ Re_lambda' = RatDiv(RatMul(urms, l), RatInt(mu * mu))
                /\ pc' = "normalize"
                /\ err' = err
    /\ UNCHANGED <<file, out, nskip, dat, mu, Re, dx, urms, stdout>>

\* dat['u'] /= urms; dat['v'] /= urms; dat['w'] /= urms
Normalize ==
    /\ pc = "normalize"
    /\ dat' = normalize(dat, urms)
    /\ pc' = "print"
    /\ UNCHANGED <<file, out, err, nskip, mu, Re, dx, scalars, stdout>>

\* print("Simulation information:") ...
PrintInfo ==
    /\ pc = "print"
    /\ stdout' = <<resolution, urms, lambda0, k0, mu, Re, Re_lambda>>
    /\ pc' = "to_csv"
    /\ UNCHANGED <<file, out, err, nskip, dat, mu, Re, dx, scalars>>

\* dat.to_csv(oname, ...) and the elapsed time
ToCsv ==
    /\ pc = "to_csv"
    /\ out' = [state |-> "written", lines |-> to_csv(dat)]
    /\ pc' = "done"
    /\ UNCHANGED <<file, err, nskip, dat, mu, Re, dx, scalars, stdout>>

Next ==
    \/ GetSkiprowsNum
    \/ ReadCsv
    \/ GetViscosity
    \/ ComputeRe
    \/ Rename
    \/ ComputeDx
    \/ Shift
    \/ SortValues
    \/ ComputeUrms
    \/ Taylor
    \/ Normalize
    \/ PrintInfo
    \/ ToCsv

Spec == Init /\ [][Next]_vars

\* ------------------------------------------------------------------------
\* properties

\* the rows of numbers of the input file, as sequences <<x, y, z, u, v, w>>
InputData ==
    LET d == SelectSeq(file.lines, LAMBDA l : l.data # <<>>)
    IN  [i \in 1..Len(d) |-> d[i].data[1]]

\* the data rows of the output file, as sequences of six fields
OutputData ==
    LET d == SelectSeq(out.lines, LAMBDA l : l.kind = "data")
    IN  [i \in 1..Len(d) |-> d[i].fields]

\* C1: every input row (x, y, z, u, v, w) has exactly one output row at
\* x = input y + 0.5*dx, y = input x + 0.5*dx, z = input z + 0.5*dx, and
\* that row carries the row's velocities in the fields 4, 5, 6: the fields
\* are written in the order x, y, z, u, v, w.
C1_RelabelAndShift ==
    pc = "done" =>
        LET inp == InputData
            outp == OutputData
        IN  \A i \in 1..Len(inp) :
                LET r == inp[i]
                    at == {k \in 1..Len(outp) :
                              /\ outp[k][1] = r[2] + Half(dx)
                              /\ outp[k][2] = r[1] + Half(dx)
                              /\ outp[k][3] = r[3] + Half(dx)}
                IN  /\ Cardinality(at) = 1
                    /\ \A k \in at :
                          /\ Len(outp[k]) = 6
                          /\ outp[k][4] = DivBySqrt(Val(r[4]), urms)
                          /\ outp[k][5] = DivBySqrt(Val(r[5]), urms)
                          /\ outp[k][6] = DivBySqrt(Val(r[6]), urms)

C1_Witness ==
    /\ pc = "done"
    /\ Half(dx) > 0
    /\ \E i \in 1..Len(InputData) :
          /\ InputData[i][1] # InputData[i][2]
          /\ InputData[i][4] # InputData[i][5]

KeyLeq(a, b) ==
    \/ a[3] < b[3]
    \/ a[3] = b[3] /\ a[2] < b[2]
    \/ a[3] = b[3] /\ a[2] = b[2] /\ a[1] <= b[1]

\* C2: consecutive data rows of the output file are in non-decreasing
\* order of the key (z, y, x), z most significant, whatever the order of
\* the input rows.
C2_OutputSorted ==
    pc = "done" =>
        LET outp == OutputData
        IN  \A k \in 1..Len(outp) - 1 : KeyLeq(outp[k], outp[k + 1])

C2_Witness ==
    /\ pc = "done"
    /\ \E i \in 1..Len(InputData) - 1 :
          ~KeyLeq(<<InputData[i][2], InputData[i][1], InputData[i][3]>>,
                  <<InputData[i + 1][2], InputData[i + 1][1], InputData[i + 1][3]>>)

\* C3 as stated: every line of the output file is a data row, so the file
\* has as many lines as there are grid points.
C3_NoHeaderLine ==
    pc = "done" =>
        /\ \A k \in 1..Len(out.lines) : out.lines[k].kind = "data"
        /\ Len(out.lines) = Len(InputData)

\* C3 amended: the first line of the output file is the header line
\* x,y,z,u,v,w, every later line is a data row of six fields, and the file
\* has one line more than there are grid points.
C3_HeaderThenData ==
    pc = "done" =>
        /\ out.lines[1].kind = "header"
        /\ out.lines[1].fields = <<"x", "y", "z", "u", "v", "w">>
        /\ \A k \in 2..Len(out.lines) :
              out.lines[k].kind = "data" /\ Len(out.lines[k].fields) = 6
        /\ Len(out.lines) = Len(InputData) + 1

C3_Witness ==
    /\ pc = "done"
    /\ out.state = "written"
    /\ Len(out.lines) = NPoints + 1

\* C4: after relabel, shift and sort the table has as many records as were
\* loaded, and the records at original position (x, y, z) carry exactly
\* the (u, v, w) loaded for that position.
C4_VelocitiesKept ==
    pc \in {"urms", "taylor", "normalize"} =>
        LET inp == InputData
        IN  /\ Len(dat) = Len(inp)
            /\ \A i \in 1..Len(inp) :
                  LET r == inp[i]
                  IN  Cardinality({k \in 1..Len(dat) :
                                      /\ dat[k]["y"] - Half(dx) = r[1]
                                      /\ dat[k]["x"] - Half(dx) = r[2]
                                      /\ dat[k]["z"] - Half(dx) = r[3]
                                      /\ dat[k]["u"] = Val(r[4])
                                      /\ dat[k]["v"] = Val(r[5])
                                      /\ dat[k]["w"] = Val(r[6])})
                      = Cardinality({j \in 1..Len(inp) : inp[j] = r})

C4_Witness ==
    /\ pc = "urms"
    /\ \E k \in 1..Len(dat) :
          /\ dat[k]["u"] # dat[k]["v"]
          /\ dat[k]["x"] # dat[k]["y"]
    /\ \E k \in 1..Len(dat) :
          dat[k]["y"] - Half(dx) # InputData[k][1]

\* C5: with urms > 0, sqrt(mean(u^2 + v^2 + w^2) / 3) over the velocity
\* fields of the output file is 1.
C5_UnitRms ==
    (pc = "done" /\ urms[1] > 0) =>
        LET outp == OutputData
        IN  urms_squared([k \in 1..Len(outp) |->
                             [c \in {"u", "v", "w"} |->
                                 outp[k][CHOOSE q \in 4..6 : columns[q] = c]]])
                = RatInt(1)

C5_Witness ==
    /\ pc = "done"
    /\ urms[1] > 0
    /\ urms # RatInt(1)
    /\ \E k \in 1..Len(OutputData) : OutputData[k][6].num # 0

\* the viscosity read from the input file is zero
ZeroViscosity ==
    /\ file.exists
    /\ ~get_viscosity(file).raised
    /\ get_viscosity(file).value = 0

\* C6 as stated: a zero viscosity does not abort the run.
C6_ZeroViscosityNotDetected ==
    ZeroViscosity => ~(pc = "failed" /\ err = "ZeroDivisionError")

\* C6 amended: with a zero viscosity the run does not get past Re = 1./mu:
\* that statement raises ZeroDivisionError, the run ends there, the table
\* is neither transformed nor normalized and no output file is written.
C6_ZeroViscosityAborts ==
    ZeroViscosity =>
        /\ pc \in {"get_skiprows_num", "read_csv", "get_viscosity", "Re", "failed"}
        /\ pc = "failed" => err \in {"ParserError", "ZeroDivisionError"}
        /\ out.state # "written"

C6_Witness ==
    /\ ZeroViscosity
    /\ pc = "failed"
    /\ err = "ZeroDivisionError"
    /\ \A i \in 1..Len(file.lines) : ~HasViscosity(file.lines[i])

MarkerAt == {i \in 1..Len(file.lines) : HasMarker(file.lines[i])}

\* C7: nskip is the 1-based number of the first line containing the marker,
\* 0 without one; the loader's table is the lines after the first nskip, in
\* file order, and the load fails when one of them is not a row of numbers.
C7_SkipThroughMarker ==
    (file.exists /\ pc # "get_skiprows_num") =>
        /\ IF MarkerAt = {} THEN nskip = 0
           ELSE nskip \in MarkerAt /\ \A i \in MarkerAt : nskip <= i
        /\ pc = "get_viscosity" =>
              /\ Len(dat) = Len(file.lines) - nskip
              /\ \A i \in 1..Len(dat) :
                    /\ file.lines[nskip + i].data # <<>>
                    /\ <<dat[i]["x"], dat[i]["y"], dat[i]["z"],
                         dat[i]["u"].num, dat[i]["v"].num, dat[i]["w"].num>>
                           = file.lines[nskip + i].data[1]
        /\ (pc = "failed" /\ err = "ParserError") =>
              \E i \in nskip + 1..Len(file.lines) : file.lines[i].data = <<>>

C7_Witness ==
    /\ pc = "get_viscosity"
    /\ nskip >= 2
    /\ Len(dat) = NPoints

ViscosityAt == {i \in 1..Len(file.lines) : HasViscosity(file.lines[i])}

LastToken(i) == file.lines[i].text[Len(file.lines[i].text)]

\* get_viscosity has been called
ViscosityCalled ==
    \/ pc \notin {"get_skiprows_num", "read_csv", "get_viscosity", "failed"}
    \/ pc = "failed" /\ err \notin {"FileNotFoundError", "ParserError"}

\* C8: mu is the last token, as a number, of the first line containing
\* "viscosity", 0 without such a line; when that token is not a number the
\* call fails, whatever the later lines are.
C8_FirstViscosityLine ==
    ViscosityCalled =>
        IF ViscosityAt = {} THEN pc # "failed" => mu = 0
        ELSE LET first == CHOOSE i \in ViscosityAt : \A j \in ViscosityAt : i <= j
             IN  IF LastToken(first) \in DOMAIN FloatOf
                 THEN /\ err # "ValueError: could not convert string to float"
                      /\ mu = FloatOf[LastToken(first)]
                 ELSE /\ pc = "failed"
                      /\ err = "ValueError: could not convert string to float"

C8_Witness ==
    /\ pc = "Re"
    /\ \E i, j \in ViscosityAt : i < j /\ LastToken(i) # LastToken(j)

\* C9: element (i, j, k) of the cube is the u of the row of the transformed
\* table at x-index i, y-index j and z-index k, whatever the order of the
\* input rows.
C9_CubeIsPhysical ==
    pc = "normalize" =>
        \A i, j, k \in 0..resolution - 1 :
            LET at == {r \in 1..Len(dat) :
                          /\ dat[r]["x"] = GridCoord(i) + Half(dx)
                          /\ dat[r]["y"] = GridCoord(j) + Half(dx)
                          /\ dat[r]["z"] = GridCoord(k) + Half(dx)}
            IN  /\ Cardinality(at) = 1
                /\ \A r \in at : cube[i][j][k] = dat[r]["u"]

C9_Witness ==
    /\ pc = "normalize"
    /\ \E i \in 1..Len(InputData) - 1 :
          ~KeyLeq(<<InputData[i][2], InputData[i][1], InputData[i][3]>>,
                  <<InputData[i + 1][2], InputData[i + 1][1], InputData[i + 1][3]>>)
    /\ cube[1][0][0] # cube[0][0][1]

\* every stage before the write succeeded on the input file
EarlierStagesSucceeded ==
    /\ file.exists
    /\ \A i \in nskip + 1..Len(file.lines) : file.lines[i].data # <<>>
    /\ ViscosityAt # {} =>
          LastToken(CHOOSE i \in ViscosityAt : \A j \in ViscosityAt : i <= j)
              \in DOMAIN FloatOf
    /\ mu # 0
    /\ Len(dat) = NPoints

\* C10: only the final write changes the output file, the write happens
\* only when every earlier stage succeeded, and a failed run stays failed.
C10_WriteOnlyAtEnd ==
    /\ [](out.state = "written" => pc = "done" /\ EarlierStagesSucceeded)
    /\ [][/\ out' # out => pc = "to_csv" /\ pc' = "done"
          /\ pc = "failed" => pc' = "failed" /\ out' = out]_vars

C10_Witness ==
    /\ pc = "failed"
    /\ err = "ValueError: cannot reshape array"
    /\ out = OldOutput

====
